---- MODULE Spec2Model ----
(***************************************************************************)
(* Model of the search session tracker: SessionService and the session    *)
(* state container it drives, with the persistence client, the session    *)
(* info provider and the application-lifecycle stream as collaborators.   *)
(***************************************************************************)
EXTENDS Naturals, Sequences, FiniteSets

\* ------------------------------------------------------------------ bounds
MaxSessionIds == 2
MaxDescriptors == 2
MaxSaves == 2
MaxApps == 2
MaxProviders == 1
MaxFatal == 1

\* An absent value (undefined): no session id, no provider, no application.
Undefined == 0

SessionIds == 1..MaxSessionIds
Descriptors == 1..MaxDescriptors
SaveCalls == 1..MaxSaves
Apps == 1..MaxApps
Providers == 1..MaxProviders

VARIABLES
  state,                      \* the state container's value
  searchSessionInfoProvider,  \* this.searchSessionInfoProvider
  appChangeSubscription,      \* this.appChangeSubscription$: "unset", "subscribed", "closed"
  curApp,                     \* this.curApp
  dev,                        \* initializerContext.env.mode.dev
  usedIds,                    \* session ids seen so far (a generated id is not one of them)
  untrackClosures,            \* descriptors for which trackSearch returned an untrack closure
  tracked,                    \* descriptors tracked since the current session began
  untracked,                  \* descriptors whose untrack closure ran since the current session began
  abortCount,                 \* per descriptor: how often abort() was invoked
  saves,                      \* per save() call: where it is and what it captured
  providerCalls,              \* calls made to the provider's getName / getUrlGeneratorData
  createLog,                  \* descriptors handed to sessionsClient.create, in order
  deleteLog,                  \* ids handed to sessionsClient.delete, in order
  timers,                     \* pending setTimeout callbacks of the navigation watcher
  fatalErrors,                \* messages added to coreStart.fatalErrors
  warned,                     \* console.warn was called with the open-session message
  destroyed,                  \* destroy() has been called
  deleteStatus,               \* per sessionsClient.delete call: "pending", "resolved", "rejected"
  persisted,                  \* session ids whose sessionsClient.create call resolved
  cancelledIds,               \* session ids cancel() was called on
  stream                      \* the observable getSession$() returned and its subscriber

vars == <<state, searchSessionInfoProvider, appChangeSubscription, curApp, dev, usedIds,
          untrackClosures, tracked, untracked, abortCount, saves, providerCalls,
          createLog, deleteLog, timers, fatalErrors, warned, destroyed, deleteStatus,
          persisted, cancelledIds, stream>>

\* ------------------------------------------------------- state container
createSessionDefaultState ==
  [sessionId |-> Undefined, isStored |-> FALSE, isRestore |-> FALSE, pendingSearches |-> {}]

start(s, id) == [createSessionDefaultState EXCEPT !.sessionId = id]

restore(s, id) == [createSessionDefaultState EXCEPT !.sessionId = id, !.isRestore = TRUE]

clear(s) == createSessionDefaultState

store(s) == IF s.sessionId = Undefined THEN s ELSE [s EXCEPT !.isStored = TRUE]

trackSearch(s, d) ==
  IF s.sessionId = Undefined THEN s
  ELSE [s EXCEPT !.pendingSearches = s.pendingSearches \cup {d}]

unTrackSearch(s, d) == [s EXCEPT !.pendingSearches = s.pendingSearches \ {d}]

cancel(s) == createSessionDefaultState

\* getSessionId(): the session id of the container's current state.
getSessionId(s) == s.sessionId

\* ------------------------------------------------------- collaborators
\* What provider p answers.
getName(p) == <<"name", p>>

getUrlGeneratorData(p) ==
  [urlGeneratorId |-> <<"generator", p>>,
   initialState |-> <<"initial", p>>,
   restoreState |-> <<"restore", p>>]

IdleSave ==
  [pc |-> "idle", sessionId |-> Undefined, provider |-> Undefined, appId |-> Undefined,
   result |-> "none"]

\* A save() call that settled: its promise resolved or rejected with `result`.
Settled(pc, result) ==
  [pc |-> pc, sessionId |-> Undefined, provider |-> Undefined, appId |-> Undefined,
   result |-> result]

\* No observable was asked for yet.
NoStream == [phase |-> "none", startWith |-> Undefined, first |-> Undefined, recent |-> <<>>]

\* The last two values of a sequence of deliveries.
LastTwo(seq) == IF Len(seq) <= 2 THEN seq ELSE SubSeq(seq, Len(seq) - 1, Len(seq))

\* distinctUntilChanged(): value v reaches the subscriber unless it equals the
\* value delivered last.
distinctUntilChanged(recent, v) ==
  IF recent # <<>> /\ recent[Len(recent)] = v THEN recent ELSE LastTwo(Append(recent, v))

\* The smallest member of S not in used, Undefined when all are used.
NextUnused(S, used) ==
  IF S \ used = {} THEN Undefined
  ELSE CHOOSE x \in S \ used : \A y \in S \ used : x <= y

\* ------------------------------------------------------------------ Init
Init ==
  /\ state = createSessionDefaultState
  /\ searchSessionInfoProvider = Undefined
  /\ appChangeSubscription = "unset"
  /\ curApp = Undefined
  /\ dev \in BOOLEAN
  /\ usedIds = {}
  /\ untrackClosures = {}
  /\ tracked = {}
  /\ untracked = {}
  /\ abortCount = [d \in Descriptors |-> 0]
  /\ saves = [c \in SaveCalls |-> IdleSave]
  /\ providerCalls = [getName |-> 0, getUrlGeneratorData |-> 0]
  /\ createLog = <<>>
  /\ deleteLog = <<>>
  /\ timers = 0
  /\ fatalErrors = 0
  /\ warned = FALSE
  /\ destroyed = FALSE
  /\ deleteStatus = <<>>
  /\ persisted = {}
  /\ cancelledIds = {}
  /\ stream = NoStream

\* -------------------------------------------------------- SessionService
\* What every operation outside save() leaves alone.
SaveUnchanged == UNCHANGED <<saves, providerCalls, createLog, persisted>>
WatcherUnchanged ==
  UNCHANGED <<appChangeSubscription, curApp, dev, timers, fatalErrors, warned, destroyed>>

\* destroy() is terminal: the owner of the service makes no call after it.
InUse == ~destroyed

\* The container publishes the new state on state$: a subscriber of getSession$()
\* receives its session id through map and distinctUntilChanged.
Publish ==
  stream' = IF stream.phase = "subscribed"
              THEN [stream EXCEPT !.recent = distinctUntilChanged(stream.recent, state'.sessionId)]
              ELSE stream

\* clear(): the container's clear transition, then the provider is dropped.
ClearSession ==
  /\ state' = clear(state)
  /\ searchSessionInfoProvider' = Undefined
  /\ tracked' = {}
  /\ untracked' = {}

SetSearchSessionInfoProvider(p) ==
  /\ searchSessionInfoProvider' = p
  /\ InUse
  /\ UNCHANGED <<stream, state, usedIds, untrackClosures, tracked, untracked, abortCount,
                 deleteLog, deleteStatus, cancelledIds>>
  /\ SaveUnchanged /\ WatcherUnchanged

\* (mutant) a search is recorded even when no session is active.
TrackSearchWithoutSession(d) ==
  /\ d = NextUnused(Descriptors, untrackClosures)
  /\ state' = [state EXCEPT !.pendingSearches = state.pendingSearches \cup {d}]
  /\ untrackClosures' = untrackClosures \cup {d}
  /\ tracked' = IF state.sessionId = Undefined THEN tracked ELSE tracked \cup {d}
  /\ Publish
  /\ InUse
  /\ UNCHANGED <<searchSessionInfoProvider, usedIds, untracked, abortCount,
                 deleteLog, deleteStatus, cancelledIds>>
  /\ SaveUnchanged /\ WatcherUnchanged

\* trackSearch(descriptor): the descriptor is a unique object, never seen before
\* (descriptors are interchangeable: the next unused one stands for any new object).
TrackSearch(d) ==
  /\ d = NextUnused(Descriptors, untrackClosures)
  /\ state' = trackSearch(state, d)
  /\ untrackClosures' = untrackClosures \cup {d}
  /\ tracked' = IF state.sessionId = Undefined THEN tracked ELSE tracked \cup {d}
  /\ Publish
  /\ InUse
  /\ UNCHANGED <<searchSessionInfoProvider, usedIds, untracked, abortCount,
                 deleteLog, deleteStatus, cancelledIds>>
  /\ SaveUnchanged /\ WatcherUnchanged

\* (mutant) the closure drops every pending search, not only its own.
UntrackEverything(d) ==
  /\ d \in untrackClosures
  /\ state' = [state EXCEPT !.pendingSearches = {}]
  /\ untracked' = IF d \in tracked THEN untracked \cup {d} ELSE untracked
  /\ Publish
  /\ InUse
  /\ UNCHANGED <<searchSessionInfoProvider, usedIds, untrackClosures, tracked, abortCount,
                 deleteLog, deleteStatus, cancelledIds>>
  /\ SaveUnchanged /\ WatcherUnchanged

\* The closure trackSearch returned for descriptor d is invoked.
Untrack(d) ==
  /\ d \in untrackClosures
  /\ state' = unTrackSearch(state, d)
  /\ untracked' = IF d \in tracked THEN untracked \cup {d} ELSE untracked
  /\ Publish
  /\ InUse
  /\ UNCHANGED <<searchSessionInfoProvider, usedIds, untrackClosures, tracked, abortCount,
                 deleteLog, deleteStatus, cancelledIds>>
  /\ SaveUnchanged /\ WatcherUnchanged

\* (mutant) start() only replaces the id and keeps the rest of the old session.
StartKeepingSession ==
  /\ \E id \in {NextUnused(SessionIds, usedIds)} \ {Undefined} :
       /\ state' = [state EXCEPT !.sessionId = id]
       /\ usedIds' = usedIds \cup {id}
  /\ tracked' = {}
  /\ untracked' = {}
  /\ Publish
  /\ InUse
  /\ UNCHANGED <<searchSessionInfoProvider, untrackClosures, abortCount,
                 deleteLog, deleteStatus, cancelledIds>>
  /\ SaveUnchanged /\ WatcherUnchanged

\* start(): the container generates an id no session had before (ids are
\* interchangeable: the next unused one stands for any generated id).
Start ==
  /\ \E id \in {NextUnused(SessionIds, usedIds)} \ {Undefined} :
       /\ state' = start(state, id)
       /\ usedIds' = usedIds \cup {id}
  /\ tracked' = {}
  /\ untracked' = {}
  /\ Publish
  /\ InUse
  /\ UNCHANGED <<searchSessionInfoProvider, untrackClosures, abortCount,
                 deleteLog, deleteStatus, cancelledIds>>
  /\ SaveUnchanged /\ WatcherUnchanged

\* (mutant) restore() keeps the stored flag of the session it replaces.
RestoreKeepingStored(id) ==
  /\ state' = [state EXCEPT !.sessionId = id, !.isRestore = TRUE]
  /\ usedIds' = usedIds \cup {id}
  /\ tracked' = {}
  /\ untracked' = {}
  /\ Publish
  /\ InUse
  /\ UNCHANGED <<searchSessionInfoProvider, untrackClosures, abortCount,
                 deleteLog, deleteStatus, cancelledIds>>
  /\ SaveUnchanged /\ WatcherUnchanged

Restore(id) ==
  /\ state' = restore(state, id)
  /\ usedIds' = usedIds \cup {id}
  /\ tracked' = {}
  /\ untracked' = {}
  /\ Publish
  /\ InUse
  /\ UNCHANGED <<searchSessionInfoProvider, untrackClosures, abortCount,
                 deleteLog, deleteStatus, cancelledIds>>
  /\ SaveUnchanged /\ WatcherUnchanged

Clear ==
  /\ ClearSession
  /\ Publish
  /\ InUse
  /\ UNCHANGED <<usedIds, untrackClosures, abortCount, deleteLog, deleteStatus,
                 cancelledIds>>
  /\ SaveUnchanged /\ WatcherUnchanged

\* (mutant) isStored is read after the cancel transition instead of before it.
CancelReadingStoredLate ==
  /\ abortCount' = [d \in Descriptors |->
                      IF d \in state.pendingSearches THEN abortCount[d] + 1 ELSE abortCount[d]]
  /\ state' = cancel(state)
  /\ deleteLog' = IF state'.isStored THEN Append(deleteLog, state'.sessionId) ELSE deleteLog
  /\ deleteStatus' = IF Len(deleteLog') > Len(deleteLog)
                       THEN Append(deleteStatus, "pending") ELSE deleteStatus
  /\ cancelledIds' = cancelledIds \cup ({state.sessionId} \ {Undefined})
  /\ tracked' = {}
  /\ untracked' = {}
  /\ Publish
  /\ InUse
  /\ UNCHANGED <<searchSessionInfoProvider, usedIds, untrackClosures>>
  /\ SaveUnchanged /\ WatcherUnchanged

\* (mutant) the pending searches are aborted after the cancel transition emptied them.
CancelAbortingLate ==
  /\ state' = cancel(state)
  /\ abortCount' = [d \in Descriptors |->
                      IF d \in state'.pendingSearches THEN abortCount[d] + 1 ELSE abortCount[d]]
  /\ deleteLog' = IF state.isStored THEN Append(deleteLog, state'.sessionId) ELSE deleteLog
  /\ deleteStatus' = IF Len(deleteLog') > Len(deleteLog)
                       THEN Append(deleteStatus, "pending") ELSE deleteStatus
  /\ cancelledIds' = cancelledIds \cup ({state.sessionId} \ {Undefined})
  /\ tracked' = {}
  /\ untracked' = {}
  /\ Publish
  /\ InUse
  /\ UNCHANGED <<searchSessionInfoProvider, usedIds, untrackClosures>>
  /\ SaveUnchanged /\ WatcherUnchanged

\* cancel(): abort every pending search, the container's cancel transition, then
\* delete the stored session under the id the container holds after the transition.
Cancel ==
  /\ abortCount' = [d \in Descriptors |->
                      IF d \in state.pendingSearches THEN abortCount[d] + 1 ELSE abortCount[d]]
  /\ state' = cancel(state)
  /\ deleteLog' = IF state.isStored THEN Append(deleteLog, state'.sessionId) ELSE deleteLog
  /\ deleteStatus' = IF Len(deleteLog') > Len(deleteLog)
                       THEN Append(deleteStatus, "pending") ELSE deleteStatus
  /\ cancelledIds' = cancelledIds \cup ({state.sessionId} \ {Undefined})
  /\ tracked' = {}
  /\ untracked' = {}
  /\ Publish
  /\ InUse
  /\ UNCHANGED <<searchSessionInfoProvider, usedIds, untrackClosures>>
  /\ SaveUnchanged /\ WatcherUnchanged

Destroy ==
  /\ appChangeSubscription' =
       IF appChangeSubscription = "subscribed" THEN "closed" ELSE appChangeSubscription
  /\ ClearSession
  /\ destroyed' = TRUE
  /\ Publish
  /\ InUse
  /\ UNCHANGED <<curApp, dev, timers, fatalErrors, warned, usedIds, untrackClosures,
                 abortCount, deleteLog, deleteStatus, cancelledIds>>
  /\ SaveUnchanged

\* ---------------------------------------------------------------- save()
PreconditionFailures ==
  {"No current session", "No current app id", "No info provider for current session"}

\* (mutant) the check of the current application id is missing.
SaveFailureWithoutAppCheck ==
  IF state.sessionId = Undefined THEN "No current session"
  ELSE IF searchSessionInfoProvider = Undefined THEN "No info provider for current session"
  ELSE "none"

\* The precondition save() fails on, "none" when it goes ahead.
SaveFailure ==
  IF state.sessionId = Undefined THEN "No current session"
  ELSE IF curApp = Undefined THEN "No current app id"
  ELSE IF searchSessionInfoProvider = Undefined THEN "No info provider for current session"
  ELSE "none"

\* (mutant) the descriptor carries the id current when create is called, not the
\* id save() captured on entry.
SessionDescriptorWithCurrentId(c) ==
  [name |-> getName(saves[c].provider),
   appId |-> curApp,
   restoreState |-> getUrlGeneratorData(saves[c].provider).restoreState,
   initialState |-> getUrlGeneratorData(saves[c].provider).initialState,
   urlGeneratorId |-> getUrlGeneratorData(saves[c].provider).urlGeneratorId,
   sessionId |-> state.sessionId]

\* The argument of sessionsClient.create, built once the provider has answered.
SessionDescriptor(c) ==
  [name |-> getName(saves[c].provider),
   appId |-> curApp,
   restoreState |-> getUrlGeneratorData(saves[c].provider).restoreState,
   initialState |-> getUrlGeneratorData(saves[c].provider).initialState,
   urlGeneratorId |-> getUrlGeneratorData(saves[c].provider).urlGeneratorId,
   sessionId |-> saves[c].sessionId]

\* (mutant) the stale-session check is missing: whatever session is current is stored.
StoreWhateverIsCurrent(s, id) == store(s)

\* "if we are still interested in this result": store only the session that was saved.
\* (mutant) the session save() captured is brought back and marked stored.
StoreCapturedId(s, id) == [s EXCEPT !.sessionId = id, !.isStored = TRUE]

StoreIfCurrent(s, id) == IF s.sessionId = id THEN store(s) ELSE s

\* Which branch of that check the resolving save() took.
StoreOutcome(s, id) == IF s.sessionId = id THEN "stored" ELSE "discarded"

SaveRest == UNCHANGED <<searchSessionInfoProvider, usedIds, untrackClosures, tracked,
                        untracked, abortCount, deleteLog, deleteStatus, cancelledIds>>

\* save() is called: the preconditions, then both provider calls are made. The
\* call captures the session id and the provider; appId records the application
\* current at the call, which save() itself does not capture.
Save(c) ==
  /\ saves[c].pc = "idle"
  /\ c > 1 => saves[c - 1].pc # "idle"
  /\ InUse
  /\ IF SaveFailure # "none"
       THEN /\ saves' = [saves EXCEPT ![c] = Settled("rejected", SaveFailure)]
            /\ UNCHANGED providerCalls
       ELSE /\ saves' = [saves EXCEPT ![c].pc = "provider",
                                      ![c].sessionId = state.sessionId,
                                      ![c].provider = searchSessionInfoProvider,
                                      ![c].appId = curApp]
            /\ providerCalls' = [getName |-> providerCalls.getName + 1,
                                 getUrlGeneratorData |-> providerCalls.getUrlGeneratorData + 1]
  /\ UNCHANGED <<state, createLog, persisted, stream>>
  /\ SaveRest /\ WatcherUnchanged

\* (mutant) create is not awaited: the session is marked stored as soon as create
\* is called.
ProviderResolvedStoringEarly(c) ==
  /\ saves[c].pc = "provider"
  /\ createLog' = Append(createLog, SessionDescriptor(c))
  /\ saves' = [saves EXCEPT ![c].pc = "create"]
  /\ state' = StoreIfCurrent(state, saves[c].sessionId)
  /\ UNCHANGED <<providerCalls, persisted, stream>>
  /\ SaveRest /\ WatcherUnchanged

\* Both provider promises resolved: sessionsClient.create is called.
ProviderResolved(c) ==
  /\ saves[c].pc = "provider"
  /\ createLog' = Append(createLog, SessionDescriptor(c))
  /\ saves' = [saves EXCEPT ![c].pc = "create"]
  /\ UNCHANGED <<state, providerCalls, persisted, stream>>
  /\ SaveRest /\ WatcherUnchanged

\* A provider promise rejected: save() rejects without calling create.
ProviderRejected(c) ==
  /\ saves[c].pc = "provider"
  /\ saves' = [saves EXCEPT ![c] = Settled("rejected", "provider failed")]
  /\ UNCHANGED <<state, providerCalls, createLog, persisted, stream>>
  /\ SaveRest /\ WatcherUnchanged

\* create resolved: the session is marked stored if it is still the current one.
CreateResolved(c) ==
  /\ saves[c].pc = "create"
  /\ state' = StoreIfCurrent(state, saves[c].sessionId)
  /\ saves' = [saves EXCEPT ![c] = Settled("resolved", StoreOutcome(state, saves[c].sessionId))]
  /\ persisted' = persisted \cup {saves[c].sessionId}
  /\ IF state.sessionId = saves[c].sessionId THEN Publish ELSE UNCHANGED stream
  /\ UNCHANGED <<providerCalls, createLog>>
  /\ SaveRest /\ WatcherUnchanged

\* (mutant) a rejected create is attempted again.
CreateRejectedRetrying(c) ==
  /\ saves[c].pc = "create"
  /\ createLog' = Append(createLog, SessionDescriptor(c))
  /\ UNCHANGED <<state, saves, providerCalls, persisted, stream>>
  /\ SaveRest /\ WatcherUnchanged

\* create rejected: save() rejects, nothing is stored.
CreateRejected(c) ==
  /\ saves[c].pc = "create"
  /\ saves' = [saves EXCEPT ![c] = Settled("rejected", "create failed")]
  /\ UNCHANGED <<state, providerCalls, createLog, persisted, stream>>
  /\ SaveRest /\ WatcherUnchanged

\* ---------------------------------------------------- navigation watcher
\* getStartServices() resolved: the watcher subscribes to currentAppId$.
StartServicesResolved ==
  /\ appChangeSubscription = "unset"
  /\ appChangeSubscription' = "subscribed"
  /\ UNCHANGED <<state, searchSessionInfoProvider, curApp, dev, timers, fatalErrors, warned,
                 usedIds, untrackClosures, tracked, untracked, abortCount, deleteLog,
                 deleteStatus, cancelledIds, destroyed, stream>>
  /\ SaveUnchanged

\* (mutant) the production build warns about the open session and leaves it open.
AppChangeWithoutClear(appName) ==
  /\ appChangeSubscription = "subscribed"
  /\ IF state.sessionId # Undefined
       THEN IF dev
              THEN /\ timers + fatalErrors < MaxFatal
                   /\ timers' = timers + 1
                   /\ UNCHANGED warned
              ELSE /\ warned' = TRUE
                   /\ UNCHANGED timers
       ELSE UNCHANGED <<timers, warned>>
  /\ curApp' = appName
  /\ UNCHANGED <<state, searchSessionInfoProvider, tracked, untracked, stream>>
  /\ UNCHANGED <<appChangeSubscription, dev, fatalErrors, usedIds, untrackClosures, abortCount,
                 deleteLog, deleteStatus, cancelledIds, destroyed>>
  /\ SaveUnchanged

\* currentAppId$ emits appName to the subscribed watcher.
AppChange(appName) ==
  /\ appChangeSubscription = "subscribed"
  /\ IF state.sessionId # Undefined
       THEN IF dev
              THEN /\ timers + fatalErrors < MaxFatal
                   /\ timers' = timers + 1
                   /\ UNCHANGED <<state, searchSessionInfoProvider, tracked, untracked, warned,
                                  stream>>
              ELSE /\ warned' = TRUE
                   /\ ClearSession
                   /\ Publish
                   /\ UNCHANGED timers
       ELSE UNCHANGED <<state, searchSessionInfoProvider, tracked, untracked, timers, warned,
                        stream>>
  /\ curApp' = appName
  /\ UNCHANGED <<appChangeSubscription, dev, fatalErrors, usedIds, untrackClosures, abortCount,
                 deleteLog, deleteStatus, cancelledIds, destroyed>>
  /\ SaveUnchanged

\* The development build's setTimeout callback: coreStart.fatalErrors.add(message).
FatalErrorTimer ==
  /\ timers > 0
  /\ timers' = timers - 1
  /\ fatalErrors' = fatalErrors + 1
  /\ UNCHANGED <<state, searchSessionInfoProvider, appChangeSubscription, curApp, dev, warned,
                 usedIds, untrackClosures, tracked, untracked, abortCount, deleteLog,
                 deleteStatus, cancelledIds, destroyed, stream>>
  /\ SaveUnchanged

\* ------------------------------------------------------ cancel()'s delete
\* The delete call number i resolved: the cancel() that awaits it resolves.
DeleteResolved(i) ==
  /\ i \in DOMAIN deleteStatus
  /\ deleteStatus[i] = "pending"
  /\ deleteStatus' = [deleteStatus EXCEPT ![i] = "resolved"]
  /\ UNCHANGED <<state, searchSessionInfoProvider, usedIds, untrackClosures, tracked,
                 untracked, abortCount, deleteLog, cancelledIds, stream>>
  /\ SaveUnchanged /\ WatcherUnchanged

\* The delete call number i rejected: the cancel() that awaits it rejects.
DeleteRejected(i) ==
  /\ i \in DOMAIN deleteStatus
  /\ deleteStatus[i] = "pending"
  /\ deleteStatus' = [deleteStatus EXCEPT ![i] = "rejected"]
  /\ UNCHANGED <<state, searchSessionInfoProvider, usedIds, untrackClosures, tracked,
                 untracked, abortCount, deleteLog, cancelledIds, stream>>
  /\ SaveUnchanged /\ WatcherUnchanged

\* ----------------------------------------------------------- getSession$()
\* getSession$() is called: the pipe is built, startWith(this.state.get()) holds
\* the state read now.
GetSession ==
  /\ stream.phase = "none"
  /\ InUse
  /\ stream' = [stream EXCEPT !.phase = "created", !.startWith = state.sessionId]
  /\ UNCHANGED <<state, searchSessionInfoProvider, usedIds, untrackClosures, tracked,
                 untracked, abortCount,
                 deleteLog, deleteStatus, cancelledIds>>
  /\ SaveUnchanged /\ WatcherUnchanged

\* The observable is subscribed to: the startWith value is delivered, then the
\* state that state$ replays to a new subscriber.
Subscribe ==
  /\ stream.phase = "created"
  /\ stream' = [stream EXCEPT
                  !.phase = "subscribed",
                  !.first = stream.startWith,
                  !.recent = distinctUntilChanged(<<stream.startWith>>, state.sessionId)]
  /\ UNCHANGED <<state, searchSessionInfoProvider, usedIds, untrackClosures, tracked,
                 untracked, abortCount,
                 deleteLog, deleteStatus, cancelledIds>>
  /\ SaveUnchanged /\ WatcherUnchanged

\* The session's lifecycle: every operation but search tracking and save().
Lifecycle ==
  \/ \E p \in Providers \cup {Undefined} : SetSearchSessionInfoProvider(p)
  \/ Start
  \/ \E id \in SessionIds : Restore(id)
  \/ Clear
  \/ Cancel
  \/ Destroy
  \/ StartServicesResolved
  \/ \E appName \in Apps : AppChange(appName)
  \/ FatalErrorTimer

Tracking ==
  \/ \E d \in Descriptors : TrackSearch(d)
  \/ \E d \in Descriptors : Untrack(d)

Saving ==
  \/ \E c \in SaveCalls : Save(c)
  \/ \E c \in SaveCalls : ProviderResolved(c)
  \/ \E c \in SaveCalls : ProviderRejected(c)
  \/ \E c \in SaveCalls : CreateResolved(c)
  \/ \E c \in SaveCalls : CreateRejected(c)
  \/ \E i \in DOMAIN deleteStatus : DeleteResolved(i)
  \/ \E i \in DOMAIN deleteStatus : DeleteRejected(i)

Observing ==
  \/ GetSession
  \/ Subscribe

Next == Lifecycle \/ Tracking \/ Saving \/ Observing

\* The whole service.
Spec == Init /\ [][Next]_vars

\* The service with callers that save sessions and track no search.
NextSave == Lifecycle \/ Saving
SpecSave == Init /\ [][NextSave]_vars

\* The service with callers that track searches and save no session.
NextTrack == Lifecycle \/ Tracking
SpecTrack == Init /\ [][NextTrack]_vars

\* The service with callers that track searches and watch the session id.
NextObserve == Lifecycle \/ Tracking \/ Observing
SpecObserve == Init /\ [][NextObserve]_vars
\* ------------------------------------------------------------- properties
\* The step in which the create call of save() number c resolves.
Resolves(c) == saves[c].pc = "create" /\ saves'[c].pc = "resolved"

\* The step in which save() number c is called.
Called(c) == saves[c].pc = "idle" /\ saves'[c].pc # "idle"

SameSession == state.sessionId # Undefined /\ state'.sessionId = state.sessionId

\* isStored turns true, and a save() that captured the current id is resolving.
StoredBySave ==
  (~state.isStored /\ state'.isStored)
    => \E c \in SaveCalls : Resolves(c) /\ saves[c].sessionId = state'.sessionId

\* C2 as stated: for a given current sessionId, isStored only ever changes from
\* false to true, in every step, and it becomes true only when a save() that
\* captured that id is completing.
C2_StoredOnlyRises ==
  [][SameSession => ((state.isStored => state'.isStored) /\ StoredBySave)]_vars

\* C2 as amended: in every step that keeps the current sessionId and is not a
\* restore() of that same id, isStored never goes from true to false; and in
\* every step that keeps the id, isStored becomes true only when a save() that
\* captured that id is completing.
C2_StoredOnlyRisesUnlessRestored ==
  [][SameSession =>
       /\ (~Restore(state.sessionId) => (state.isStored => state'.isStored))
       /\ StoredBySave]_vars

\* A save() stored the current session.
C2_Witness ==
  \E c \in SaveCalls :
    saves[c].result = "stored" /\ state.isStored /\ state.sessionId # Undefined

\* C3: a save() called with no active session, no recorded application id or no
\* registered provider is rejected with a precondition failure, calls neither
\* the provider nor sessionsClient.create, and leaves the session state and the
\* rest of the service as they were.
C3_SavePreconditions ==
  [][\A c \in SaveCalls :
       (Called(c) /\ (\/ state.sessionId = Undefined
                      \/ curApp = Undefined
                      \/ searchSessionInfoProvider = Undefined))
         => /\ saves'[c].pc = "rejected"
            /\ saves'[c].result \in PreconditionFailures
            /\ UNCHANGED <<state, providerCalls, createLog, searchSessionInfoProvider,
                           curApp, deleteLog, deleteStatus, cancelledIds>>]_vars

\* Each of the three precondition failures is distinct; here a session is active
\* and a provider registered, and save() failed for want of an application id.
C3_Witness ==
  \E c \in SaveCalls :
    /\ saves[c].result = "No current app id"
    /\ state.sessionId # Undefined
    /\ searchSessionInfoProvider # Undefined
    /\ providerCalls.getName = 0
    /\ createLog = <<>>

\* C4: when the create call of a save() resolves and the session it captured is
\* the current one, sessionsClient.create has received a descriptor with that
\* session id and the captured provider's name, initial state, restore state and
\* generator id, both provider calls were made, and isStored is true afterwards.
C4_SaveStoresSession ==
  [][\A c \in SaveCalls :
       (Resolves(c) /\ state.sessionId = saves[c].sessionId)
         => /\ state'.isStored
            /\ state'.sessionId = saves[c].sessionId
            /\ \E i \in DOMAIN createLog :
                 /\ createLog[i].sessionId = saves[c].sessionId
                 /\ createLog[i].name = getName(saves[c].provider)
                 /\ createLog[i].initialState = <<"initial", saves[c].provider>>
                 /\ createLog[i].restoreState = <<"restore", saves[c].provider>>
                 /\ createLog[i].urlGeneratorId = <<"generator", saves[c].provider>>
            /\ providerCalls.getName >= 1
            /\ providerCalls.getUrlGeneratorData >= 1]_vars

\* A save() went through: create was called for the current session, which is stored.
C4_Witness ==
  \E c \in SaveCalls :
    /\ saves[c].result = "stored"
    /\ state.isStored
    /\ \E i \in DOMAIN createLog : createLog[i].sessionId = state.sessionId

\* C5: cancel() calls sessionsClient.delete exactly when the session was stored
\* at the moment of the call: once for a stored session, not at all otherwise.
C5_CancelDeletesIffStored ==
  [][Cancel => Len(deleteLog') = Len(deleteLog) + (IF state.isStored THEN 1 ELSE 0)]_vars

\* A stored session was cancelled and delete was called.
C5_Witness ==
  Len(deleteLog) = 1 /\ state.sessionId = Undefined /\ usedIds # {}

\* C6: when cancel() is called on a stored session, the id handed to
\* sessionsClient.delete is the id of the session that was cancelled.
C6_DeleteReceivesCancelledId ==
  [][(Cancel /\ state.isStored) => deleteLog' = Append(deleteLog, state.sessionId)]_vars

\* What cancel() adds to the abort count of descriptor d.
Aborted(d) == IF d \in state.pendingSearches THEN 1 ELSE 0

\* C7: after cancel() the session id is absent and pendingSearches is empty; the
\* abort of every descriptor pending at the call was invoked exactly once by it,
\* the abort of a descriptor already untracked was not invoked, and no abort is
\* ever invoked a second time.
C7_CancelAbortsPending ==
  /\ [](\A d \in Descriptors : abortCount[d] <= 1)
  /\ [][Cancel =>
          /\ state'.sessionId = Undefined
          /\ state'.pendingSearches = {}
          /\ \A d \in Descriptors : abortCount'[d] = abortCount[d] + Aborted(d)]_vars

\* A session with one pending and one untracked search was cancelled: the first
\* was aborted, the second was not.
C7_Witness ==
  /\ state.sessionId = Undefined
  /\ \E d, e \in untrackClosures : abortCount[d] = 1 /\ abortCount[e] = 0

\* C8: within an active session pendingSearches is the set of descriptors
\* tracked in it minus those whose untrack closure was invoked; invoking the
\* untrack closure of a descriptor that is not pending (a second invocation, or
\* after the session was cleared, cancelled or replaced) changes nothing.
C8_TrackUntrack ==
  /\ [](state.sessionId # Undefined => state.pendingSearches = tracked \ untracked)
  /\ [][\A d \in Descriptors :
          (Untrack(d) /\ d \notin state.pendingSearches) => UNCHANGED vars]_vars

\* One search of the session was untracked while another is still pending.
C8_Witness ==
  /\ state.sessionId # Undefined
  /\ untracked # {}
  /\ state.pendingSearches # {}
  /\ state.pendingSearches = tracked \ untracked

\* An application change reaches the watcher while a session is active.
Navigation(appName) == AppChange(appName) /\ state.sessionId # Undefined

SessionReleased ==
  \/ Clear
  \/ Cancel
  \/ \E appName \in Apps : Navigation(appName) /\ state'.sessionId = Undefined

\* C10: after clear(), after cancel() and after a navigation-triggered clear no
\* provider is registered.
C10_ProviderReleased ==
  [][SessionReleased => searchSessionInfoProvider' = Undefined]_vars
\* C11: start() returns a fresh session id, which is the one getSessionId()
\* reports afterwards and differs from the id of the session it replaces; the new
\* session is neither stored nor restored and has no pending search.
C11_StartFreshSession ==
  [][Start =>
       LET returned == getSessionId(state')
       IN /\ returned \in SessionIds
          /\ returned \notin usedIds
          /\ returned # getSessionId(state)
          /\ ~state'.isStored
          /\ ~state'.isRestore
          /\ state'.pendingSearches = {}]_vars

\* A second session was started after a search had been tracked.
C11_Witness ==
  /\ Cardinality(usedIds) = 2
  /\ state.sessionId # Undefined
  /\ ~state.isRestore
  /\ untrackClosures # {}
  /\ tracked = {}

\* C12: restore(id), from any state, makes id the session id and marks the session
\* restored; the session is then not stored and has no pending search.
C12_RestoreSetsSession ==
  [][\A id \in SessionIds :
       Restore(id) =>
         /\ getSessionId(state') = id
         /\ state'.isRestore
         /\ ~state'.isStored
         /\ state'.pendingSearches = {}]_vars

\* The id of a session that was persisted has been restored.
C12_Witness ==
  /\ state.isRestore
  /\ state.sessionId \in persisted
  /\ ~state.isStored

\* C17: a search is pending only while a session is active: trackSearch without
\* a session records nothing, and start, restore, clear, cancel and destroy leave
\* no pending search.
C17_PendingOnlyInSession ==
  /\ [](state.sessionId = Undefined => state.pendingSearches = {})
  /\ [][/\ (Start \/ Clear \/ Cancel \/ Destroy \/ \E id \in SessionIds : Restore(id))
            => state'.pendingSearches = {}
        /\ \A d \in Descriptors :
             (TrackSearch(d) /\ state.sessionId = Undefined) => state'.pendingSearches = {}]_vars

\* trackSearch was called before any session existed.
C17_Witness ==
  /\ usedIds = {}
  /\ untrackClosures # {}
  /\ state.pendingSearches = {}

NoRepeatedDelivery ==
  \A i \in 1..(Len(stream.recent) - 1) : stream.recent[i] # stream.recent[i + 1]

\* C13: a new subscriber of getSession$() first receives the session id current
\* at its subscription, and afterwards never the same id twice in a row, whatever
\* transitions run in between.
C13_SessionIdStream ==
  /\ [][Subscribe => stream'.first = getSessionId(state)]_vars
  /\ []NoRepeatedDelivery

\* The save() calls that got as far as calling sessionsClient.create.
ReachedCreate ==
  {c \in SaveCalls : \/ saves[c].pc = "create"
                      \/ saves[c].result \in {"create failed", "stored", "discarded"}}

\* C14: a rejected create makes save() reject with that failure, changes nothing
\* of the session state (isStored stays as it was) and is not retried: each save()
\* calls create at most once. A rejected delete makes cancel() reject and is not
\* retried: each delete call has one outcome.
C14_FailuresPropagateOnce ==
  /\ [](Len(createLog) = Cardinality(ReachedCreate) /\ Len(deleteStatus) = Len(deleteLog))
  /\ [][/\ \A c \in SaveCalls :
             (saves[c].pc = "create" /\ saves'[c].pc = "rejected")
               => /\ saves'[c].result = "create failed"
                  /\ UNCHANGED <<state, createLog, deleteLog>>
        /\ \A i \in DOMAIN deleteStatus :
             (deleteStatus[i] = "pending" /\ deleteStatus'[i] = "rejected")
               => UNCHANGED <<state, createLog, deleteLog>>
        /\ \A i \in DOMAIN deleteStatus :
             deleteStatus[i] # "pending" => deleteStatus'[i] = deleteStatus[i]]_vars

\* The create of a save() failed, leaving its session unstored, and the delete of
\* an earlier cancel() failed.
C14_Witness ==
  /\ \E c \in SaveCalls : saves[c].result = "create failed"
  /\ state.sessionId # Undefined
  /\ ~state.isStored
  /\ \E i \in DOMAIN deleteStatus : deleteStatus[i] = "rejected"

\* C15: destroy() closes the navigation watcher and leaves the service idle: once
\* destroy() was called the session stays idle and no application change is
\* handled any more (curApp keeps its value, nothing is cleared or reported),
\* whether destroy() came before or after getStartServices() resolved.
C15_DestroyIsFinal ==
  /\ [](destroyed => (state = createSessionDefaultState /\ appChangeSubscription # "subscribed"))
  /\ [][destroyed => /\ UNCHANGED <<state, curApp, warned>>
                     /\ timers' + fatalErrors' = timers + fatalErrors]_vars

\* C16: whatever save() calls are made on a session, while an earlier one is in
\* flight or after the session is stored, sessionsClient.create is called at most
\* once with that session's id.
C16_CreateOncePerSession ==
  \A i, j \in DOMAIN createLog :
    createLog[i].sessionId = createLog[j].sessionId => i = j

\* C19: the appId that save() hands to sessionsClient.create is the application
\* that was current when save() was called, also when the application changes
\* while save() awaits the provider.
C19_CreateReceivesAppAtCall ==
  [][\A c \in SaveCalls :
       (saves[c].pc = "provider" /\ saves'[c].pc = "create")
         => createLog'[Len(createLog')].appId = saves[c].appId]_vars

\* Every save() and every delete of a cancel() has settled.
AllSettled ==
  /\ \A c \in SaveCalls : saves[c].pc \in {"idle", "resolved", "rejected"}
  /\ \A i \in DOMAIN deleteStatus : deleteStatus[i] # "pending"

\* C20: cancellation orphans no persisted session: once every save() and cancel()
\* has settled, each session that was cancelled and whose create succeeded has
\* had sessionsClient.delete called with its id.
C20_NoOrphanAfterCancel ==
  AllSettled =>
    \A id \in persisted \cap cancelledIds : \E i \in DOMAIN deleteLog : deleteLog[i] = id

====
